---------------------------- MODULE Spec2Model ----------------------------
(***************************************************************************)
(* A model of the LC-3 virtual machine of src/lc3.c: image loading, the    *)
(* set-up of the terminal and the interrupt handler, the fetch / decode /  *)
(* execute loop with its sixteen opcodes and six trap routines, and the    *)
(* memory-mapped keyboard.                                                 *)
(*                                                                         *)
(* Words are 16 bits wide and every arithmetic result is reduced modulo    *)
(* 2^16, as the U16 type of the source does.  The 65536-cell memory is     *)
(* kept as a function on the addresses that hold a non-zero word (a cell   *)
(* outside its domain holds 0), which is the zero-initialised array of the *)
(* source with the zero cells left out.                                    *)
(***************************************************************************)
EXTENDS Integers, Sequences, FiniteSets

(***************************************************************************)
(* Bounds of the model.                                                    *)
(***************************************************************************)
\* instructions fetched in one run
MaxSteps == 5
\* characters typed on the keyboard in one run
MaxKeys == 1

(***************************************************************************)
(* Constants of the program.                                               *)
(***************************************************************************)
MEMORY_MAX == 65536

R_R0 == 0
R_R7 == 7
R_PC == 8
R_COND == 9
R_COUNT == 10

OP_BR == 0
OP_ADD == 1
OP_LD == 2
OP_ST == 3
OP_JSR == 4
OP_AND == 5
OP_LDR == 6
OP_STR == 7
OP_RTI == 8
OP_NOT == 9
OP_LDI == 10
OP_STI == 11
OP_JMP == 12
OP_RES == 13
OP_LEA == 14
OP_TRAP == 15

FL_POS == 1
FL_ZRO == 2
FL_NEG == 4

TRAP_GETC == 32
TRAP_OUT == 33
TRAP_PUTS == 34
TRAP_IN == 35
TRAP_PUTSP == 36
TRAP_HALT == 37

MR_KBSR == 65024
MR_KBDR == 65026

PC_START == 12288

\* getchar()'s end-of-file value
EOF == -1

(***************************************************************************)
(* 16-bit words.                                                           *)
(***************************************************************************)
Word == 0 .. (MEMORY_MAX - 1)

\* the conversion of an int to U16
U16(x) == x % MEMORY_MAX

Pow2(n) == 2 ^ n

\* x >> n
Shr(x, n) == x \div Pow2(n)

\* (x >> lo) & (2^width - 1): an operand field of an instruction
Bits(x, lo, width) == Shr(x, lo) % Pow2(width)

\* bit k of x
Bit(x, k) == Shr(x, k) % 2

\* bit k of x & y, in its place
AndBit(x, y, k) == Bit(x, k) * Bit(y, k) * Pow2(k)

\* bits k .. k+3 of x & y
AndBits(x, y, k) ==
    AndBit(x, y, k) + AndBit(x, y, k + 1) + AndBit(x, y, k + 2)
        + AndBit(x, y, k + 3)

\* x & y, for operands below 2^28 (the widest is 0xffff << 11, in sign_extend)
BitAnd(x, y) ==
    AndBits(x, y, 0) + AndBits(x, y, 4) + AndBits(x, y, 8) + AndBits(x, y, 12)
        + AndBits(x, y, 16) + AndBits(x, y, 20) + AndBits(x, y, 24)

\* x | y: each bit of x and of y, those of both once
BitOr(x, y) == x + y - BitAnd(x, y)

\* ~x of a U16, stored back into a U16
BitNot(x) == U16(-x - 1)

\* swap16: (x << 8) | (x >> 8), returned as a U16; the two operands of | have
\* no bit in common (x is a U16), so that | adds them
swap16(x) == U16(x * 256 + Shr(x, 8))

\* sign_extend that leaves the field as it is
sign_extend_unsigned(x, bit_count) == x

\* sign_extend: the bits above bit_count are set when bit bit_count-1 is set
sign_extend(x, bit_count) ==
    IF Bits(x, bit_count - 1, 1) = 1
    THEN U16(BitOr(x, 65535 * Pow2(bit_count)))
    ELSE x

(***************************************************************************)
(* Memory.                                                                 *)
(***************************************************************************)
\* memory[addr]
Cell(m, addr) == IF addr \in DOMAIN m THEN m[addr] ELSE 0

\* memory[addr] = data
Store(m, addr, data) ==
    IF data = 0
    THEN [a \in DOMAIN m \ {addr} |-> m[a]]
    ELSE [a \in DOMAIN m \cup {addr} |-> IF a = addr THEN data ELSE m[a]]

ZeroMemory == [a \in {} |-> 0]

(***************************************************************************)
(* State.                                                                  *)
(***************************************************************************)
VARIABLES
    pc,            \* where main() is: "start", "signal", "raw", "init", "run",
                   \* "done" (returned), "exit" (exit() called), "crash"
    argv,          \* the command line: argv[0] and the image files
    memory,        \* U16 memory[MEMORY_MAX]
    reg,           \* U16 reg[R_COUNT]
    running,       \* main's local  int running
    instr,         \* main's local  U16 instr: the word fetched last
    kq,            \* characters typed and not yet read from the terminal
    buf,           \* characters read from the terminal into stdin's buffer
    eof,           \* the input has ended
    out,           \* the bytes written to stdout
    tio,           \* the mode of the terminal
    original_tio,  \* struct termios original_tio
    handler,       \* handle_interrupt is installed for SIGINT
    exit_status,   \* the status the process ended with, -1 while it runs
    nfetch,        \* instructions fetched so far
    nkeys,         \* characters typed so far
    rd,            \* the calls of mem_read made by the last instruction
    lastgpr,       \* the value last written to one of R0..R7, -1 before
    lastset,       \* the value last written together with the flags, -1 before
    call           \* a call of sign_extend: its arguments x and bit_count, and
                   \* the value returned (ret, -1 before it returns)

vars == <<pc, argv, memory, reg, running, instr, kq, buf, eof, out, tio,
          original_tio, handler, exit_status, nfetch, nkeys, rd, lastgpr,
          lastset, call>>

(***************************************************************************)
(* The terminal: struct termios, of which the program changes ICANON and   *)
(* ECHO; rest stands for every other setting of a working terminal.        *)
(***************************************************************************)
ZeroTermios == [icanon |-> FALSE, echo |-> FALSE, rest |-> FALSE]

CookedTermios == [icanon |-> TRUE, echo |-> TRUE, rest |-> TRUE]

(***************************************************************************)
(* The input source: stdin on a terminal.  select() looks at the terminal, *)
(* getchar() at stdin's buffer first and fills it from the terminal.       *)
(***************************************************************************)
\* check_key with a select() that reports stdin readable whatever it holds
check_key_always(s) == TRUE

\* check_key: select() with a zero timeout says stdin is readable, which it
\* also is at the end of the input
check_key(s) == s.kq # <<>> \/ eof

\* getchar() returns without waiting
GetcharReady(s) == s.buf # <<>> \/ s.kq # <<>> \/ eof

\* getchar(): the character (or EOF) and the input left
getchar(s) ==
    IF s.buf # <<>>
    THEN [c |-> Head(s.buf), kq |-> s.kq, buf |-> Tail(s.buf)]
    ELSE IF s.kq # <<>>
    THEN [c |-> Head(s.kq), kq |-> <<>>, buf |-> Tail(s.kq)]
    ELSE [c |-> EOF, kq |-> s.kq, buf |-> s.buf]

\* the memory and the input as one instruction sees them, with the log of
\* its reads
Now == [mem |-> memory, kq |-> kq, buf |-> buf, rd |-> <<>>]

\* mem_read: the word read (val) and the memory and input afterwards
mem_read(s, addr) ==
    LET g == getchar(s)
        m == IF addr # MR_KBSR THEN s.mem
             ELSE IF check_key(s)
             THEN Store(Store(s.mem, MR_KBSR, Pow2(15)), MR_KBDR, U16(g.c))
             ELSE Store(s.mem, MR_KBSR, 0)
        took == addr = MR_KBSR /\ check_key(s)
    IN  [val |-> Cell(m, addr),
         mem |-> m,
         kq  |-> IF took THEN g.kq ELSE s.kq,
         buf |-> IF took THEN g.buf ELSE s.buf,
         rd  |-> Append(s.rd, [addr |-> addr, val |-> Cell(m, addr)])]

\* mem_write
mem_write(s, addr, data) == [s EXCEPT !.mem = Store(s.mem, addr, data)]

(***************************************************************************)
(* Image files.  A file is its path, whether fopen() opens it, and its     *)
(* bytes; the host is little-endian, as the source assumes.                *)
(***************************************************************************)
\* fread of the i-th U16 of the file (i from 0)
FileWord(bytes, i) == bytes[2 * i + 1] + 256 * bytes[2 * i + 2]

Min(a, b) == IF a < b THEN a ELSE b

\* read_image_file: fread stores at most max_read words from origin on, and
\* the loop swaps the bytes of each
read_image_file(m, bytes) ==
    LET origin   == swap16(FileWord(bytes, 0))
        max_read == U16(MEMORY_MAX - origin)
        read     == Min(max_read, Len(bytes) \div 2 - 1)
        loaded   == origin .. (origin + read - 1)
        word(a)  == IF a \in loaded
                    THEN swap16(FileWord(bytes, a - origin + 1))
                    ELSE Cell(m, a)
    IN  [a \in {x \in DOMAIN m \cup loaded : word(x) # 0} |-> word(a)]

RECURSIVE LoadFrom(_, _, _)
\* the loop of handle_args from index i (from 1 here, 0 in the source): the
\* memory afterwards and the index of the file that did not open (0: none).
\* (x \in {...} has the memory after one file evaluated once.)
LoadFrom(m, args, i) ==
    IF i > Len(args) THEN [mem |-> m, failed |-> 0]
    ELSE IF ~args[i].ok THEN [mem |-> m, failed |-> i]
    ELSE CHOOSE l \in { LoadFrom(x, args, i + 1) :
                           x \in {read_image_file(m, args[i].bytes)} } : TRUE

\* the first argv index the loop of handle_args loads: for (int i = 0; ...
FirstLoaded == 1

(***************************************************************************)
(* The run loop: fetch, increment PC, decode.                              *)
(***************************************************************************)
\* a loop that does not test running
Running_untested == pc = "run" /\ nfetch < MaxSteps

\* while (running), within the bound of the model
Running == pc = "run" /\ running /\ nfetch < MaxSteps

\* mem_read(reg[R_PC]++): the fetch, and the registers after it
Fetch == mem_read(Now, reg[R_PC])

Fetched == [reg EXCEPT ![R_PC] = U16(reg[R_PC] + 1)]

\* U16 op = instr >> 12
Opcode(i) == Shr(i, 12)

\* update_cflags without the test of bit 15
update_cflags_unsigned(r, i) ==
    [r EXCEPT ![R_COND] = IF r[i] = 0 THEN FL_ZRO ELSE FL_POS]

\* update_cflags that sets the new flag and keeps the old ones
update_cflags_kept(r, i) ==
    [r EXCEPT ![R_COND] =
        BitOr(r[R_COND], IF r[i] = 0 THEN FL_ZRO
                         ELSE IF Shr(r[i], 15) # 0 THEN FL_NEG
                         ELSE FL_POS)]

\* update_cflags, on the register file r
update_cflags(r, i) ==
    [r EXCEPT ![R_COND] = IF r[i] = 0 THEN FL_ZRO
                          ELSE IF Shr(r[i], 15) # 0 THEN FL_NEG
                          ELSE FL_POS]

(***************************************************************************)
(* The opcodes.  Each takes the registers r and the memory and input s as  *)
(* they are after the fetch and the instruction word i, and gives them as  *)
(* the case of the switch leaves them: [r |-> registers, s |-> the rest].  *)
(***************************************************************************)
\* the second operand of ADD and AND: lines 239-244 and 254-259
SecondOperand(r, i) ==
    IF Bits(i, 5, 1) # 0 THEN sign_extend(Bits(i, 0, 5), 5) ELSE Bits(i, 0, 3)

ExecAdd(r, s, i) ==
    LET dest_reg == Bits(i, 9, 3)
        s1_reg   == Bits(i, 6, 3)
    IN  [r |-> update_cflags(
                 [r EXCEPT ![dest_reg] = U16(r[s1_reg] + SecondOperand(r, i))],
                 dest_reg),
         s |-> s]

ExecAnd(r, s, i) ==
    LET dest_reg == Bits(i, 9, 3)
        s1_reg   == Bits(i, 6, 3)
    IN  [r |-> update_cflags(
                 [r EXCEPT ![dest_reg] = BitAnd(r[s1_reg], SecondOperand(r, i))],
                 dest_reg),
         s |-> s]

\* BR that does not test the flags
ExecBr_always(r, s, i) ==
    [r |-> [r EXCEPT ![R_PC] = U16(r[R_PC] + sign_extend(Bits(i, 0, 9), 9))],
     s |-> s]

ExecBr(r, s, i) ==
    LET p == Bits(i, 9, 3)
    IN  [r |-> IF BitAnd(p, r[R_COND]) # 0
               THEN [r EXCEPT ![R_PC] = U16(r[R_PC] + sign_extend(Bits(i, 0, 9), 9))]
               ELSE r,
         s |-> s]

ExecJmp(r, s, i) ==
    [r |-> [r EXCEPT ![R_PC] = r[Bits(i, 6, 3)]], s |-> s]

\* JSR that sets the flags from R7
ExecJsr_flags(r, s, i) ==
    LET linked == [r EXCEPT ![R_R7] = r[R_PC]]
    IN  [r |-> update_cflags(
                 IF Bits(i, 11, 1) = 0
                 THEN [linked EXCEPT ![R_PC] = linked[Bits(i, 6, 3)]]
                 ELSE [linked EXCEPT
                          ![R_PC] = U16(linked[R_PC]
                                        + sign_extend(Bits(i, 0, 11), 11))],
                 R_R7),
         s |-> s]

ExecJsr(r, s, i) ==
    LET linked == [r EXCEPT ![R_R7] = r[R_PC]]
    IN  [r |-> IF Bits(i, 11, 1) = 0
               THEN [linked EXCEPT ![R_PC] = linked[Bits(i, 6, 3)]]
               ELSE [linked EXCEPT
                        ![R_PC] = U16(linked[R_PC] + sign_extend(Bits(i, 0, 11), 11))],
         s |-> s]

ExecLd(r, s, i) ==
    LET dr == Bits(i, 9, 3)
        m  == mem_read(s, U16(r[R_PC] + sign_extend(Bits(i, 0, 9), 9)))
    IN  [r |-> update_cflags([r EXCEPT ![dr] = m.val], dr), s |-> m]

\* LDI with one read
ExecLdi_once(r, s, i) ==
    LET dr == Bits(i, 9, 3)
        m  == mem_read(s, U16(r[R_PC] + sign_extend(Bits(i, 0, 9), 9)))
    IN  [r |-> update_cflags([r EXCEPT ![dr] = m.val], dr), s |-> m]

ExecLdi(r, s, i) ==
    LET dr == Bits(i, 9, 3)
        p  == mem_read(s, U16(r[R_PC] + sign_extend(Bits(i, 0, 9), 9)))
        m  == mem_read(p, p.val)
    IN  [r |-> update_cflags([r EXCEPT ![dr] = m.val], dr), s |-> m]

ExecLdr(r, s, i) ==
    LET dr == Bits(i, 9, 3)
        br == Bits(i, 6, 3)
        m  == mem_read(s, U16(r[br] + sign_extend(Bits(i, 0, 6), 6)))
    IN  [r |-> update_cflags([r EXCEPT ![dr] = m.val], dr), s |-> m]

ExecLea(r, s, i) ==
    LET dest     == Bits(i, 9, 3)
        pcoffset == Bits(i, 0, 9)
    IN  [r |-> update_cflags(
                 [r EXCEPT ![dest] = U16(r[R_PC] + sign_extend(pcoffset, 9))], dest),
         s |-> s]

ExecNot(r, s, i) ==
    LET dest == Bits(i, 9, 3)
        src  == Bits(i, 6, 3)
    IN  [r |-> update_cflags([r EXCEPT ![dest] = BitNot(r[src])], dest), s |-> s]

\* ST that takes the offset from the address of the instruction
ExecSt_prefetch(r, s, i) ==
    LET sr       == Bits(i, 9, 3)
        pcoffset == Bits(i, 0, 9)
    IN  [r |-> r,
         s |-> mem_write(s, U16(r[R_PC] - 1 + sign_extend(pcoffset, 9)), r[sr])]

ExecSt(r, s, i) ==
    LET sr       == Bits(i, 9, 3)
        pcoffset == Bits(i, 0, 9)
    IN  [r |-> r, s |-> mem_write(s, U16(r[R_PC] + sign_extend(pcoffset, 9)), r[sr])]

ExecSti(r, s, i) ==
    LET sr       == Bits(i, 9, 3)
        pcoffset == Bits(i, 0, 9)
        p        == mem_read(s, U16(r[R_PC] + sign_extend(pcoffset, 9)))
    IN  [r |-> r, s |-> mem_write(p, p.val, r[sr])]

ExecStr(r, s, i) ==
    LET r0     == Bits(i, 9, 3)
        r1     == Bits(i, 6, 3)
        offset == sign_extend(Bits(i, 0, 6), 6)
    IN  [r |-> r, s |-> mem_write(s, U16(r[r1] + offset), r[r0])]

\* TRAP that sets the flags from R7
TrapLink_flags(r) == update_cflags([r EXCEPT ![R_R7] = r[R_PC]], R_R7)

\* case OP_TRAP, before the switch on the vector: reg[R_R7] = reg[R_PC]
TrapLink(r) == [r EXCEPT ![R_R7] = r[R_PC]]

\* instr & 0xFF
TrapVector(i) == Bits(i, 0, 8)

(***************************************************************************)
(* The trap routines.                                                      *)
(***************************************************************************)
\* "HALT\n", as puts("HALT") writes it
HaltNotice == <<72, 65, 76, 84, 10>>

\* "Enter a character: "
Prompt == <<69, 110, 116, 101, 114, 32, 97, 32, 99, 104, 97, 114, 97, 99, 116,
            101, 114, 58, 32>>

\* putc(c, stdout) writes c as an unsigned char
Byte(c) == c % 256

\* the conversion of an int to char; whether char is signed is the compiler's
\* choice
ToChar(c, signed) ==
    IF signed /\ Byte(c) >= 128 THEN Byte(c) - 256 ELSE Byte(c)

RECURSIVE PastEnd(_, _)
\* the walk of PUTS and PUTSP from address a finds no zero word in memory[]
PastEnd(m, a) == a = MEMORY_MAX \/ (Cell(m, a) # 0 /\ PastEnd(m, a + 1))

RECURSIVE PutsBytes_words(_, _)
\* PUTS that writes the words and not their low bytes
PutsBytes_words(m, a) ==
    IF a = MEMORY_MAX \/ Cell(m, a) = 0 THEN <<>>
    ELSE <<Cell(m, a)>> \o PutsBytes_words(m, a + 1)

RECURSIVE PutsBytes(_, _)
\* what the loop of TRAP_PUTS writes from address a on, inside memory[]
PutsBytes(m, a) ==
    IF a = MEMORY_MAX \/ Cell(m, a) = 0 THEN <<>>
    ELSE <<Byte(Cell(m, a))>> \o PutsBytes(m, a + 1)

RECURSIVE PutspBytes(_, _)
\* what the loop of TRAP_PUTSP writes from address a on, inside memory[]
PutspBytes(m, a) ==
    IF a = MEMORY_MAX \/ Cell(m, a) = 0 THEN <<>>
    ELSE LET char1 == Byte(Cell(m, a))
             char2 == Byte(Shr(Cell(m, a), 8))
         IN  <<char1>> \o (IF char2 # 0 THEN <<char2>> ELSE <<>>)
                       \o PutspBytes(m, a + 1)

\* A walk that leaves memory[] reads what lies behind the array, which the
\* language does not define: the process is killed, or the walk ends at once,
\* or it writes more bytes before it meets a zero word.
Walks(m, a) ==
    IF PastEnd(m, a)
    THEN {[crash |-> TRUE, more |-> <<>>], [crash |-> FALSE, more |-> <<>>],
          [crash |-> FALSE, more |-> <<63>>]}
    ELSE {[crash |-> FALSE, more |-> <<>>]}

(***************************************************************************)
(* One instruction: what every case of the switch shares.  r, s: registers *)
(* and memory/input afterwards; o: stdout; run: running; p: pc.            *)
(***************************************************************************)
Commit(r, s, o, run, p) ==
    /\ reg' = r
    /\ memory' = s.mem
    /\ kq' = s.kq
    /\ buf' = s.buf
    /\ rd' = s.rd
    /\ out' = o
    /\ running' = run
    /\ pc' = p
    /\ instr' = Fetch.val
    /\ nfetch' = nfetch + 1
    /\ exit_status' = IF p = "crash" THEN 139 ELSE exit_status
    /\ UNCHANGED <<argv, eof, tio, original_tio, handler, nkeys, call>>

\* an instruction that writes register Bits(instr, 9, 3) and sets the flags
SetsFlags(e) ==
    /\ Commit(e.r, e.s, out, running, pc)
    /\ lastgpr' = e.r[Bits(Fetch.val, 9, 3)]
    /\ lastset' = e.r[Bits(Fetch.val, 9, 3)]

\* an instruction that writes none of R0..R7
WritesNoRegister(e) ==
    /\ Commit(e.r, e.s, out, running, pc)
    /\ UNCHANGED <<lastgpr, lastset>>

Decoded(op) == Running /\ Opcode(Fetch.val) = op

OpAdd == Decoded(OP_ADD) /\ SetsFlags(ExecAdd(Fetched, Fetch, Fetch.val))

OpAnd == Decoded(OP_AND) /\ SetsFlags(ExecAnd(Fetched, Fetch, Fetch.val))

OpNot == Decoded(OP_NOT) /\ SetsFlags(ExecNot(Fetched, Fetch, Fetch.val))

OpLd == Decoded(OP_LD) /\ SetsFlags(ExecLd(Fetched, Fetch, Fetch.val))

OpLdi == Decoded(OP_LDI) /\ SetsFlags(ExecLdi(Fetched, Fetch, Fetch.val))

OpLdr == Decoded(OP_LDR) /\ SetsFlags(ExecLdr(Fetched, Fetch, Fetch.val))

OpLea == Decoded(OP_LEA) /\ SetsFlags(ExecLea(Fetched, Fetch, Fetch.val))

OpBr == Decoded(OP_BR) /\ WritesNoRegister(ExecBr(Fetched, Fetch, Fetch.val))

OpJmp == Decoded(OP_JMP) /\ WritesNoRegister(ExecJmp(Fetched, Fetch, Fetch.val))

OpSt == Decoded(OP_ST) /\ WritesNoRegister(ExecSt(Fetched, Fetch, Fetch.val))

OpSti == Decoded(OP_STI) /\ WritesNoRegister(ExecSti(Fetched, Fetch, Fetch.val))

OpStr == Decoded(OP_STR) /\ WritesNoRegister(ExecStr(Fetched, Fetch, Fetch.val))

\* case OP_RES: case OP_RTI: default: break
OpResRti ==
    /\ Running
    /\ Opcode(Fetch.val) \in {OP_RES, OP_RTI}
    /\ WritesNoRegister([r |-> Fetched, s |-> Fetch])

OpJsr ==
    /\ Decoded(OP_JSR)
    /\ LET e == ExecJsr(Fetched, Fetch, Fetch.val)
       IN  /\ Commit(e.r, e.s, out, running, pc)
           /\ lastgpr' = e.r[R_R7]
           /\ UNCHANGED lastset

\* a trap routine that writes no register but R7
TrapDone(r, o, run, p) ==
    /\ Commit(r, Fetch, o, run, p)
    /\ lastgpr' = r[R_R7]
    /\ UNCHANGED lastset

Trapped(v) == Decoded(OP_TRAP) /\ TrapVector(Fetch.val) = v

\* TRAP_GETC: getchar() waits until there is a character or the input ends
GetcRegs(r, c) == update_cflags([r EXCEPT ![R_R0] = U16(c)], R_R0)

TrapGetc ==
    /\ Trapped(TRAP_GETC)
    /\ GetcharReady(Fetch)
    /\ LET g == getchar(Fetch)
           r == GetcRegs(TrapLink(Fetched), g.c)
       IN  /\ Commit(r, [Fetch EXCEPT !.kq = g.kq, !.buf = g.buf], out, running, pc)
           /\ lastgpr' = r[R_R0]
           /\ lastset' = r[R_R0]

TrapOut == Trapped(TRAP_OUT) /\
    LET r == TrapLink(Fetched)
    IN  TrapDone(r, out \o <<Byte(r[R_R0])>>, running, pc)

TrapPuts == Trapped(TRAP_PUTS) /\
    LET r == TrapLink(Fetched)
    IN  \E w \in Walks(Fetch.mem, r[R_R0]) :
            TrapDone(r, out \o PutsBytes(Fetch.mem, r[R_R0]) \o w.more, running,
                     IF w.crash THEN "crash" ELSE pc)

\* TRAP_IN: char c = getchar(); putc(c, stdout); reg[R_R0] = (U16)c
InRegs(r, c) == update_cflags([r EXCEPT ![R_R0] = U16(c)], R_R0)

TrapIn ==
    /\ Trapped(TRAP_IN)
    /\ GetcharReady(Fetch)
    /\ \E signed \in BOOLEAN :
         LET g == getchar(Fetch)
             c == ToChar(g.c, signed)
             r == InRegs(TrapLink(Fetched), c)
         IN  /\ Commit(r, [Fetch EXCEPT !.kq = g.kq, !.buf = g.buf],
                       out \o Prompt \o <<Byte(c)>>, running, pc)
             /\ lastgpr' = r[R_R0]
             /\ lastset' = r[R_R0]

TrapPutsp == Trapped(TRAP_PUTSP) /\
    LET r == TrapLink(Fetched)
    IN  \E w \in Walks(Fetch.mem, r[R_R0]) :
            TrapDone(r, out \o PutspBytes(Fetch.mem, r[R_R0]) \o w.more, running,
                     IF w.crash THEN "crash" ELSE pc)

TrapHalt == Trapped(TRAP_HALT) /\
    TrapDone(TrapLink(Fetched), out \o HaltNotice, FALSE, pc)

\* a vector the inner switch has no case for, taken for HALT
TrapOther_halts ==
    /\ Decoded(OP_TRAP)
    /\ TrapVector(Fetch.val) \notin TRAP_GETC .. TRAP_HALT
    /\ TrapDone(TrapLink(Fetched), out \o HaltNotice, FALSE, pc)

\* a vector the inner switch has no case for
TrapOther ==
    /\ Decoded(OP_TRAP)
    /\ TrapVector(Fetch.val) \notin TRAP_GETC .. TRAP_HALT
    /\ TrapDone(TrapLink(Fetched), out, running, pc)

(***************************************************************************)
(* main() before and after the loop, the interrupt, the keyboard.          *)
(***************************************************************************)
\* "lc3 [image-file1] ...\n"
Usage == <<108, 99, 51, 32, 91, 105, 109, 97, 103, 101, 45, 102, 105, 108,
           101, 49, 93, 32, 46, 46, 46, 10>>

\* "Failed to load image: "
FailedToLoad == <<70, 97, 105, 108, 101, 100, 32, 116, 111, 32, 108, 111, 97,
                  100, 32, 105, 109, 97, 103, 101, 58, 32>>

Unchanged_machine == UNCHANGED <<reg, running, instr, kq, buf, eof, nfetch, nkeys,
                                 rd, lastgpr, lastset, call>>

\* handle_args: argc < 2, or an image that does not load, ends the process
handle_args ==
    /\ pc = "start"
    /\ \E l \in {LoadFrom(memory, argv, FirstLoaded)} :
         IF Len(argv) < 2
         THEN /\ out' = out \o Usage
              /\ exit_status' = 2
              /\ pc' = "exit"
              /\ UNCHANGED memory
         ELSE IF l.failed # 0
         THEN /\ out' = out \o FailedToLoad \o argv[l.failed].path \o <<10>>
              /\ exit_status' = 1
              /\ pc' = "exit"
              /\ memory' = l.mem
         ELSE /\ memory' = l.mem
              /\ pc' = "signal"
              /\ UNCHANGED <<out, exit_status>>
    /\ UNCHANGED <<argv, tio, original_tio, handler>>
    /\ Unchanged_machine

\* signal(SIGINT, handle_interrupt)
InstallHandler ==
    /\ pc = "signal"
    /\ handler' = TRUE
    /\ pc' = "raw"
    /\ UNCHANGED <<argv, memory, out, tio, original_tio, exit_status>>
    /\ Unchanged_machine

\* disable_input_buffering
disable_input_buffering ==
    /\ pc = "raw"
    /\ original_tio' = tio
    /\ tio' = [tio EXCEPT !.icanon = FALSE, !.echo = FALSE]
    /\ pc' = "init"
    /\ UNCHANGED <<argv, memory, out, handler, exit_status>>
    /\ Unchanged_machine

\* lines 221-226: the flags, the PC, running
StartLoop ==
    /\ pc = "init"
    /\ reg' = [reg EXCEPT ![R_COND] = FL_ZRO, ![R_PC] = PC_START]
    /\ running' = TRUE
    /\ pc' = "run"
    /\ UNCHANGED <<argv, memory, instr, kq, buf, eof, out, tio, original_tio,
                   handler, exit_status, nfetch, nkeys, rd, lastgpr, lastset,
                   call>>

\* the loop has ended: restore_input_buffering, and main returns
Shutdown ==
    /\ pc = "run"
    /\ ~running
    /\ tio' = original_tio
    /\ exit_status' = 0
    /\ pc' = "done"
    /\ UNCHANGED <<argv, memory, out, original_tio, handler>>
    /\ Unchanged_machine

\* handle_interrupt, when SIGINT arrives while the process runs
handle_interrupt ==
    /\ handler
    /\ pc \in {"raw", "init", "run"}
    /\ tio' = original_tio
    /\ out' = out \o <<10>>
    /\ exit_status' = U16(-2) % 256
    /\ pc' = "exit"
    /\ UNCHANGED <<argv, memory, original_tio, handler>>
    /\ Unchanged_machine

\* the characters a user types
Keys == {0, 65, 200}

\* a character is typed while the loop runs
KeyPress ==
    /\ pc = "run"
    /\ ~eof
    /\ nkeys < MaxKeys
    /\ \E c \in Keys : kq' = Append(kq, c)
    /\ nkeys' = nkeys + 1
    /\ UNCHANGED <<pc, argv, memory, reg, running, instr, buf, eof, out, tio,
                   original_tio, handler, exit_status, nfetch, rd, lastgpr,
                   lastset, call>>

\* the input ends
CloseInput ==
    /\ pc = "run"
    /\ ~eof
    /\ eof' = TRUE
    /\ UNCHANGED <<pc, argv, memory, reg, running, instr, kq, buf, out, tio,
                   original_tio, handler, exit_status, nfetch, nkeys, rd,
                   lastgpr, lastset, call>>

(***************************************************************************)
(* The command lines of the model: instruction words, image files.        *)
(***************************************************************************)
\* an instruction with a register and a 9-bit PC offset that, fetched from
\* address a, addresses the cell target
PcRel(op, r, a, target) == op * 4096 + r * 512 + ((target - (a + 1)) % 512)

\* an instruction with two registers and a 6-bit field
TwoReg(op, r1, r2, low) == op * 4096 + r1 * 512 + r2 * 64 + (low % 64)

Imm5(x) == 32 + (x % 32)

Trap(v) == OP_TRAP * 4096 + v

\* the bytes of an image file: the words, big-endian
BigEndian(words) ==
    [k \in 1 .. 2 * Len(words) |->
        IF k % 2 = 1 THEN words[(k + 1) \div 2] \div 256
                     ELSE words[k \div 2] % 256]

Image(path, origin, words) ==
    [path |-> path, ok |-> TRUE, bytes |-> BigEndian(<<origin>> \o words)]

Missing(path) == [path |-> path, ok |-> FALSE, bytes |-> <<>>]

\* the data the two-instruction programs work on, from PC_START + 2:
\* the address of the keyboard status, the address of the code below it, the
\* address of a string, and the string
DataAt == PC_START + 2

Data == <<MR_KBSR, MR_KBSR - 3, DataAt + 3, 328, 105>>

\* the instructions a program places at address a
Instructions(a) ==
    { TwoReg(OP_ADD, 1, 1, Imm5(5)), TwoReg(OP_ADD, 0, 0, Imm5(-1)),
      TwoReg(OP_ADD, 3, 1, 0), TwoReg(OP_ADD, 2, 1, 1),
      TwoReg(OP_AND, 3, 0, 0), TwoReg(OP_AND, 4, 0, Imm5(-1)),
      TwoReg(OP_AND, 1, 1, Imm5(0)),
      TwoReg(OP_NOT, 4, 1, 63),
      PcRel(OP_BR, 2, a, a + 2), PcRel(OP_BR, 4, a, a - 1),
      PcRel(OP_BR, 1, a, a + 2), PcRel(OP_BR, 7, a, DataAt + 1),
      TwoReg(OP_JMP, 0, 1, 0), TwoReg(OP_JMP, 0, 7, 0),
      OP_JSR * 4096 + 2048 + 2, TwoReg(OP_JSR, 0, 1, 0), TwoReg(OP_JSR, 0, 7, 0),
      PcRel(OP_LD, 1, a, DataAt), PcRel(OP_LD, 1, a, DataAt + 1),
      PcRel(OP_LD, 0, a, DataAt + 2),
      PcRel(OP_LDI, 2, a, DataAt), PcRel(OP_LDI, 2, a, DataAt + 2),
      TwoReg(OP_LDR, 3, 1, 0), TwoReg(OP_LDR, 3, 1, 2),
      PcRel(OP_LEA, 0, a, DataAt + 3),
      PcRel(OP_ST, 1, a, DataAt + 6), PcRel(OP_STI, 1, a, DataAt + 2),
      PcRel(OP_STI, 1, a, DataAt),
      TwoReg(OP_STR, 1, 1, 0),
      Trap(TRAP_GETC), Trap(TRAP_OUT), Trap(TRAP_PUTS), Trap(TRAP_IN),
      Trap(TRAP_PUTSP), Trap(TRAP_HALT), Trap(38),
      OP_RTI * 4096, OP_RES * 4096 }

\* argv[0]: the executable, an ELF file
Executable == [path |-> <<108, 99, 51>>, ok |-> TRUE,
               bytes |-> <<127, 69, 76, 70, 2, 1>>]

Program(i0, i1) == Image(<<97>>, PC_START, <<i0, i1>> \o Data)

\* code that reads the keyboard status by LD, by the pointer reads of STI and
\* LDI, and by the fetch that follows
High == Image(<<98>>, MR_KBSR - 3,
              << PcRel(OP_LD, 0, MR_KBSR - 3, MR_KBSR),
                 PcRel(OP_STI, 1, MR_KBSR - 2, MR_KBSR),
                 PcRel(OP_LDI, 2, MR_KBSR - 1, MR_KBSR),
                 PcRel(OP_BR, 7, MR_KBSR, MR_KBSR + 2) >>)

\* a string that no zero word ends
Top == Image(<<99>>, MEMORY_MAX - 1, <<65, 66>>)

\* the strings of the example program
Strings == { <<>>, <<72>>, <<328, 105>> }

\* LEA R0, HELLO_STR; PUTS; HALT; HELLO_STR .STRINGZ, the string gap cells
\* behind the HALT
Hello(gap, str) ==
    Image(<<104>>, PC_START,
          << PcRel(OP_LEA, 0, PC_START, PC_START + 3 + gap), Trap(TRAP_PUTS),
             Trap(TRAP_HALT) >> \o [k \in 1 .. gap |-> 0] \o str \o <<0>>)

Examples ==
    { <<Executable, Hello(gap, str)>> : gap \in 0 .. 1, str \in Strings }

\* an image with origin 0
Low == Image(<<100>>, 0, <<7, 9>>)

\* command lines with an image at origin 0, and with images that overlap
Loads ==
    { <<Executable, Hello(0, <<72>>), Low>>,
      <<Executable, Hello(0, <<72>>), Hello(1, <<328, 105>>)>>,
      <<Executable, Hello(1, <<328, 105>>), Hello(0, <<72>>)>> }

\* trap vectors below, next to and above those of the six routines
OtherVectors == {0, TRAP_GETC - 1, TRAP_HALT + 1, 255}

\* a TRAP with such a vector, before a HALT
Vectors ==
    { <<Executable, Program(Trap(v), Trap(TRAP_HALT)), High, Top>> :
          v \in OtherVectors }

Commands ==
    { <<Executable, Program(i0, i1), High, Top>> :
          i0 \in Instructions(PC_START), i1 \in Instructions(PC_START + 1) }
    \cup Examples
    \cup Loads
    \cup Vectors
    \cup { <<Executable>>,
           <<Executable, Missing(<<109>>)>>,
           <<Missing(<<108, 99, 51>>), Hello(0, <<72>>)>> }

\* the example programs, and each instruction once, before a HALT
FewCommands ==
    Examples
    \cup { <<Executable, Program(i0, Trap(TRAP_HALT)), High, Top>> :
              i0 \in Instructions(PC_START) }

(***************************************************************************)
(* The specification.                                                      *)
(***************************************************************************)
\* the process at the entry of main, for the command lines in cmds
Start(cmds) ==
    /\ pc = "start"
    /\ argv \in cmds
    /\ memory = ZeroMemory
    /\ reg = [i \in 0 .. (R_COUNT - 1) |-> 0]
    /\ running = FALSE
    /\ instr = 0
    /\ kq = <<>>
    /\ buf = <<>>
    /\ eof = FALSE
    /\ out = <<>>
    /\ tio = CookedTermios
    /\ original_tio = ZeroTermios
    /\ handler = FALSE
    /\ exit_status = -1
    /\ nfetch = 0
    /\ nkeys = 0
    /\ rd = <<>>
    /\ lastgpr = -1
    /\ lastset = -1

\* no call of sign_extend is looked at
NoCall == [x |-> 0, bit_count |-> 0, ret |-> -1]

Init == Start(Commands) /\ call = NoCall

\* one instruction of the run loop
Step ==
    \/ OpBr \/ OpAdd \/ OpLd \/ OpSt \/ OpJsr \/ OpAnd \/ OpLdr \/ OpStr
    \/ OpResRti \/ OpNot \/ OpLdi \/ OpSti \/ OpJmp \/ OpLea
    \/ TrapGetc \/ TrapOut \/ TrapPuts \/ TrapIn \/ TrapPutsp \/ TrapHalt
    \/ TrapOther

\* what the process does when no interrupt arrives
Program_ ==
    \/ handle_args \/ InstallHandler \/ disable_input_buffering \/ StartLoop
    \/ Step \/ Shutdown

Next == Program_ \/ handle_interrupt \/ KeyPress \/ CloseInput

Spec == Init /\ [][Next]_vars

\* the runs of a few command lines in which no interrupt arrives; the process
\* goes on whenever it can
FairInit == Init /\ argv \in FewCommands

FairNext == Program_ \/ KeyPress \/ CloseInput

\* sign_extend alone: the widths of the fields the decoder passes to it
\* (imm5, offset6, pcoffset9, pcoffset11), and every value of such a field
Widths == {5, 6, 9, 11}

Calls == { [x |-> x, bit_count |-> b, ret |-> -1] :
              x \in 0 .. (Pow2(11) - 1), b \in Widths }

SignInit ==
    /\ Start({<<Executable>>})
    /\ call \in {c \in Calls : c.x < Pow2(c.bit_count)}

\* the call returns
CallSignExtend ==
    /\ call.ret = -1
    /\ call.bit_count \in Widths
    /\ call' = [call EXCEPT !.ret = sign_extend(call.x, call.bit_count)]
    /\ UNCHANGED <<pc, argv, memory, reg, running, instr, kq, buf, eof, out, tio,
                   original_tio, handler, exit_status, nfetch, nkeys, rd,
                   lastgpr, lastset>>

SignNext == CallSignExtend

SignSpec == SignInit /\ [][SignNext]_vars

FairSpec == FairInit /\ [][FairNext]_vars /\ WF_vars(Program_)

(***************************************************************************)
(* Vocabulary of the properties.                                           *)
(***************************************************************************)
\* this step is one instruction of the run loop; instr' is its word
Instruction == nfetch' = nfetch + 1

\* the last step of the run loop executed an instruction with opcode op
Executed(op) == nfetch > 0 /\ Opcode(instr) = op

\* the run loop has been entered
InLoop == running \/ nfetch > 0

\* the two's-complement value of the width-bit field x
Signed(x, width) == IF x >= Pow2(width - 1) THEN x - Pow2(width) ELSE x

\* the flag for the value v
SignClass(v) == IF v = 0 THEN FL_ZRO ELSE IF v >= 32768 THEN FL_NEG ELSE FL_POS

\* the general-purpose registers
GPR == R_R0 .. R_R7

\* no character waits in the terminal or in stdin, and the input has not ended
NoInput == kq = <<>> /\ buf = <<>> /\ ~eof

\* the last instruction read the keyboard status
ReadKBSR(log) == \E k \in DOMAIN log : log[k].addr = MR_KBSR

(***************************************************************************)
(* C1.  ADD and AND write to the destination register the first source     *)
(* register combined (sum modulo 2^16, bitwise and) with the second        *)
(* operand: the contents of register src2 when bit 5 is 0, the             *)
(* sign-extended imm5 when it is 1.                                        *)
(***************************************************************************)
C1_Operand(i) ==
    IF Bits(i, 5, 1) = 0 THEN reg[Bits(i, 0, 3)] ELSE U16(Signed(Bits(i, 0, 5), 5))

C1_AddAndResult ==
    [][ (Instruction /\ Opcode(instr') \in {OP_ADD, OP_AND}) =>
          reg'[Bits(instr', 9, 3)] =
             IF Opcode(instr') = OP_ADD
             THEN U16(reg[Bits(instr', 6, 3)] + C1_Operand(instr'))
             ELSE BitAnd(reg[Bits(instr', 6, 3)], C1_Operand(instr')) ]_vars

(***************************************************************************)
(* C2.  After ADD, AND, NOT, LD, LDI, LDR or LEA has written v to its      *)
(* destination register, the flags are ZERO iff v = 0, NEGATIVE iff bit 15 *)
(* of v is set, POSITIVE otherwise.                                        *)
(***************************************************************************)
C2_FlagsFollowResult ==
    (nfetch > 0 /\ Opcode(instr) \in
        {OP_ADD, OP_AND, OP_NOT, OP_LD, OP_LDI, OP_LDR, OP_LEA}) =>
      LET v == reg[Bits(instr, 9, 3)]
      IN  /\ reg[R_COND] = FL_ZRO <=> v = 0
          /\ reg[R_COND] = FL_NEG <=> Bits(v, 15, 1) = 1
          /\ reg[R_COND] = FL_POS <=> (v # 0 /\ Bits(v, 15, 1) = 0)

\* an LDI has loaded a word with bit 15 set
C2_Witness == Executed(OP_LDI) /\ reg[Bits(instr, 9, 3)] >= 32768

(***************************************************************************)
(* C3.  As claimed: ST, STI, STR, JMP, JSR/JSRR, BR and TRAP with any      *)
(* vector leave the flags as they were.                                    *)
(***************************************************************************)
C3_NoFlagChange_AnyTrap ==
    [][ (Instruction /\ Opcode(instr') \in
            {OP_ST, OP_STI, OP_STR, OP_JMP, OP_JSR, OP_BR, OP_TRAP}) =>
          reg'[R_COND] = reg[R_COND] ]_vars

(***************************************************************************)
(* C3, amended.  ST, STI, STR, JMP, JSR/JSRR, BR and TRAP with a vector    *)
(* other than GETC (0x20) and IN (0x23) leave the flags as they were; GETC *)
(* and IN set them from the word they store in R0.                         *)
(***************************************************************************)
C3_NoFlagChange ==
    [][ /\ (Instruction /\ Opcode(instr') \in
               {OP_ST, OP_STI, OP_STR, OP_JMP, OP_JSR, OP_BR}) =>
             reg'[R_COND] = reg[R_COND]
        /\ (Instruction /\ Opcode(instr') = OP_TRAP) =>
             IF TrapVector(instr') \in {TRAP_GETC, TRAP_IN}
             THEN reg'[R_COND] = SignClass(reg'[R_R0])
             ELSE reg'[R_COND] = reg[R_COND] ]_vars

\* a PUTS has run with the flags NEGATIVE
C3_Witness ==
    Executed(OP_TRAP) /\ TrapVector(instr) = TRAP_PUTS /\ reg[R_COND] = FL_NEG

(***************************************************************************)
(* C4.  Only TRAP 0x25 ends the loop: an instruction clears running iff it *)
(* is TRAP with vector 0x25, nothing else clears it, and once it is clear  *)
(* nothing is fetched or executed any more.                                *)
(***************************************************************************)
C4_IsHalt(i) == Opcode(i) = OP_TRAP /\ TrapVector(i) = TRAP_HALT

C4_OnlyHaltStops ==
    [][ /\ Instruction => (running /\ (running' <=> ~C4_IsHalt(instr')))
        /\ (running /\ ~running') => (Instruction /\ C4_IsHalt(instr'))
        /\ (InLoop /\ ~running) =>
              /\ ~running'
              /\ UNCHANGED <<nfetch, instr, reg, memory, rd>> ]_vars

\* the loop has ended by HALT with the bound on the run not yet reached
C4_Witness == pc = "done" /\ C4_IsHalt(instr) /\ nfetch < MaxSteps

(***************************************************************************)
(* C5.  The example program, LEA R0, label; PUTS; HALT with a string of    *)
(* non-zero words and a zero word at label, halts when no interrupt        *)
(* arrives; when it has halted it has fetched three instructions and has   *)
(* written the low bytes of the string's words, in order, and then the     *)
(* halt notice.                                                            *)
(***************************************************************************)
C5_LowBytes(str) == [k \in 1 .. Len(str) |-> str[k] % 256]

C5_Halted(str) ==
    /\ ~running
    /\ nfetch = 3
    /\ out = C5_LowBytes(str) \o HaltNotice

C5_HelloHalts ==
    \A str \in Strings :
        /\ (argv \in {<<Executable, Hello(gap, str)>> : gap \in 0 .. 1} /\ pc = "start")
              ~> C5_Halted(str)
        /\ [](argv \in {<<Executable, Hello(gap, str)>> : gap \in 0 .. 1}
                /\ InLoop /\ ~running => C5_Halted(str))

\* the example program has written a string of two characters and has halted
C5_Witness ==
    /\ argv = <<Executable, Hello(1, <<328, 105>>)>>
    /\ pc = "done"
    /\ out = <<72, 105>> \o HaltNotice

(***************************************************************************)
(* C6.  As claimed: BR sets PC to fetch address + 1 + the signed offset    *)
(* when its condition bits and the flags have a bit in common, to fetch    *)
(* address + 1 otherwise, and changes no other register and no memory      *)
(* cell.                                                                   *)
(***************************************************************************)
C6_Target(i) ==
    IF BitAnd(Bits(i, 9, 3), reg[R_COND]) # 0
    THEN (reg[R_PC] + 1 + Signed(Bits(i, 0, 9), 9)) % MEMORY_MAX
    ELSE (reg[R_PC] + 1) % MEMORY_MAX

C6_Branch_NoMemoryChange ==
    [][ (Instruction /\ Opcode(instr') = OP_BR) =>
          /\ reg'[R_PC] = C6_Target(instr')
          /\ \A k \in GPR \cup {R_COND} : reg'[k] = reg[k]
          /\ memory' = memory ]_vars

(***************************************************************************)
(* C6, amended.  The same, but for the keyboard-status cell: a BR fetched  *)
(* from 0xFE00 has had that cell set to 0 by its fetch.  No other cell     *)
(* changes, and the cell changes in no other BR.                           *)
(***************************************************************************)
C6_Branch ==
    [][ (Instruction /\ Opcode(instr') = OP_BR) =>
          /\ reg'[R_PC] = C6_Target(instr')
          /\ \A k \in GPR \cup {R_COND} : reg'[k] = reg[k]
          /\ IF reg[R_PC] = MR_KBSR
             THEN memory' = Store(memory, MR_KBSR, 0)
             ELSE memory' = memory ]_vars

\* a BR backwards has been taken on NEGATIVE
C6_Witness ==
    /\ nfetch = 2
    /\ instr = PcRel(OP_BR, 4, PC_START + 1, PC_START)
    /\ reg[R_COND] = FL_NEG
    /\ reg[R_PC] = PC_START

(***************************************************************************)
(* C7.  LDI loads mem[P], where P = mem[PC + offset9] with PC already      *)
(* incremented and the address modulo 2^16, and sets the flags from the    *)
(* word loaded; a read of either that falls on the keyboard status yields  *)
(* the status as refreshed by that read: 0x8000 when the input source has  *)
(* data, and 0 when it has none.                                           *)
(***************************************************************************)
C7_Status == IF kq # <<>> \/ eof THEN 32768 ELSE 0

C7_Pointer(i) == (reg[R_PC] + 1 + Signed(Bits(i, 0, 9), 9)) % MEMORY_MAX

C7_P(i) ==
    IF C7_Pointer(i) = MR_KBSR THEN C7_Status ELSE Cell(memory, C7_Pointer(i))

C7_Loaded(i) ==
    IF C7_P(i) = MR_KBSR THEN C7_Status ELSE Cell(memory, C7_P(i))

C7_DoubleIndirection ==
    [][ (Instruction /\ Opcode(instr') = OP_LDI) =>
          /\ reg'[Bits(instr', 9, 3)] = C7_Loaded(instr')
          /\ reg'[R_COND] = SignClass(C7_Loaded(instr'))
          /\ (C7_Pointer(instr') = MR_KBSR \/ C7_P(instr') = MR_KBSR) =>
                Cell(memory', MR_KBSR) = C7_Status ]_vars

\* an LDI has loaded, through a pointer cell, the keyboard status refreshed
\* with a character waiting
C7_Witness ==
    /\ Executed(OP_LDI)
    /\ Len(rd) = 3
    /\ rd[2].addr # MR_KBSR
    /\ rd[3].addr = MR_KBSR
    /\ reg[Bits(instr, 9, 3)] = 32768

(***************************************************************************)
(* C8.  Once the run loop is entered the flags hold one of POSITIVE (1),   *)
(* ZERO (2), NEGATIVE (4); they hold ZERO until the first instruction.     *)
(***************************************************************************)
C8_OneFlag ==
    InLoop =>
      /\ reg[R_COND] \in {FL_POS, FL_ZRO, FL_NEG}
      /\ nfetch = 0 => reg[R_COND] = FL_ZRO

\* the flags have left ZERO
C8_Witness == InLoop /\ nfetch > 1 /\ reg[R_COND] = FL_NEG

(***************************************************************************)
(* C9.  As claimed: after the first write to one of R0..R7 the flags       *)
(* reflect the value written last to any of them, the R7 of JSR/JSRR and   *)
(* TRAP included.                                                          *)
(***************************************************************************)
C9_FlagsOfLastWrite_AnyWrite ==
    lastgpr # -1 => reg[R_COND] = SignClass(lastgpr)

(***************************************************************************)
(* C9, amended.  After the first write by ADD, AND, NOT, LD, LDI, LDR, LEA *)
(* or by TRAP GETC or IN (to R0), the flags reflect the value written last *)
(* by one of these; the writes of R7 by JSR/JSRR and TRAP leave the flags  *)
(* as they were.                                                           *)
(***************************************************************************)
C9_FlagsOfLastWrite ==
    /\ lastset # -1 => reg[R_COND] = SignClass(lastset)
    /\ (InLoop /\ lastset = -1) => reg[R_COND] = FL_ZRO

\* a JSR or JSRR has written a positive R7 and the flags still say NEGATIVE
C9_Witness ==
    /\ Executed(OP_JSR)
    /\ lastgpr = reg[R_R7]
    /\ SignClass(lastgpr) = FL_POS
    /\ lastset >= 32768
    /\ reg[R_COND] = FL_NEG

(***************************************************************************)
(* C10.  A read of the keyboard status while no input is pending does not  *)
(* wait, yields 0, leaves 0 in the status cell and leaves the data cell    *)
(* and the input as they were, whichever read it is: the fetch, the read   *)
(* of LD or LDR, either read of LDI, the pointer read of STI.              *)
(***************************************************************************)
C10_NextIsRead ==
    Opcode(Fetch.val) # OP_TRAP \/ TrapVector(Fetch.val) \notin {TRAP_GETC, TRAP_IN}

C10_PollWithoutInput ==
    /\ [][ (Instruction /\ NoInput /\ ReadKBSR(rd')) =>
             /\ \A k \in DOMAIN rd' : rd'[k].addr = MR_KBSR => rd'[k].val = 0
             /\ rd'[1].addr = MR_KBSR => instr' = 0
             /\ (Opcode(instr') \in {OP_LD, OP_LDR, OP_LDI}
                     /\ rd'[Len(rd')].addr = MR_KBSR) =>
                   reg'[Bits(instr', 9, 3)] = 0
             /\ (Opcode(instr') = OP_STI /\ rd'[2].addr = MR_KBSR) =>
                   Cell(memory', 0) = reg[Bits(instr', 9, 3)]
             /\ Cell(memory', MR_KBSR) = 0
             /\ Cell(memory', MR_KBDR) = Cell(memory, MR_KBDR)
             /\ UNCHANGED <<kq, buf, eof>> ]_vars
    /\ []((Running /\ NoInput /\ C10_NextIsRead) => ENABLED Step)

\* the pointer read of an STI has polled the keyboard with no input pending
C10_Witness ==
    /\ Executed(OP_STI)
    /\ Len(rd) = 2
    /\ rd[2] = [addr |-> MR_KBSR, val |-> 0]
    /\ nkeys = 0
    /\ ~eof

(***************************************************************************)
(* C11.  A read of the keyboard-status address when the input source       *)
(* reports data available sets the status cell to 0x8000, consumes exactly *)
(* one item of the input and stores it zero-extended in the keyboard-data  *)
(* cell, which is in 0..255 afterwards, also at the end of the input.      *)
(* Stated for the instructions that read the status address once.          *)
(***************************************************************************)
C11_ReadsOnce(log) == Cardinality({k \in DOMAIN log : log[k].addr = MR_KBSR}) = 1

C11_Pending == Len(kq) + Len(buf)

C11_ReadWithInput ==
    [][ (Instruction /\ C11_ReadsOnce(rd') /\ check_key(Now)) =>
          /\ \A k \in DOMAIN rd' : rd'[k].addr = MR_KBSR => rd'[k].val = Pow2(15)
          /\ Cell(memory', MR_KBSR) = Pow2(15)
          /\ Cell(memory', MR_KBDR) \in 0 .. 255
          /\ C11_Pending > 0 =>
               /\ Len(kq') + Len(buf') = C11_Pending - 1
               /\ Cell(memory', MR_KBDR) = Head(buf \o kq) ]_vars

(***************************************************************************)
(* C12.  After TRAP GETC or TRAP IN, R0 holds the character read           *)
(* zero-extended: R0 is in 0..255 for every byte and at the end of the     *)
(* input.  GETC writes nothing to the output; IN writes the prompt and     *)
(* then the character.                                                     *)
(***************************************************************************)
C12_Reads(i) == Opcode(i) = OP_TRAP /\ TrapVector(i) \in {TRAP_GETC, TRAP_IN}

C12_ZeroExtended ==
    [][ (Instruction /\ C12_Reads(instr')) =>
          /\ reg'[R_R0] \in 0 .. 255
          /\ kq \o buf # <<>> => reg'[R_R0] = Head(buf \o kq)
          /\ out' = IF TrapVector(instr') = TRAP_GETC THEN out
                    ELSE out \o Prompt \o <<reg'[R_R0]>> ]_vars

(***************************************************************************)
(* C13.  No access is outside memory[]: the cells PUTS and PUTSP walk from *)
(* R0 on stay inside the 65536 words, also when no zero word lies between  *)
(* R0 and address 0xFFFF; so no run ends in a memory fault.                *)
(***************************************************************************)
C13_Walks(i) == Opcode(i) = OP_TRAP /\ TrapVector(i) \in {TRAP_PUTS, TRAP_PUTSP}

C13_WalkInside ==
    /\ [][ (Instruction /\ C13_Walks(instr')) => ~PastEnd(memory, reg[R_R0]) ]_vars
    /\ [](pc # "crash")

(***************************************************************************)
(* C14.  JSR/JSRR sets R7 to the incremented PC; the new PC is the         *)
(* incremented PC plus the sign-extended pcoffset11 when bit 11 is 1, and  *)
(* the value the base register (bits 8..6, R7 included) held when the      *)
(* instruction was fetched when bit 11 is 0.  No other register, no flag   *)
(* and no memory cell changes.                                             *)
(***************************************************************************)
C14_Target(i) ==
    IF Bits(i, 11, 1) = 1
    THEN U16(reg[R_PC] + 1 + Signed(Bits(i, 0, 11), 11))
    ELSE reg[Bits(i, 6, 3)]

C14_Subroutine ==
    [][ (Instruction /\ Opcode(instr') = OP_JSR) =>
          /\ reg'[R_R7] = U16(reg[R_PC] + 1)
          /\ reg'[R_PC] = C14_Target(instr')
          /\ \A i \in (R_R0 .. R_COND) \ {R_R7, R_PC} : reg'[i] = reg[i]
          /\ memory' = memory ]_vars

(***************************************************************************)
(* C15.  Whenever the process has exited after the interrupt handler was   *)
(* installed, by HALT or by an interrupt at any point, the mode of the     *)
(* terminal equals the mode at process start; and an interrupt ends the    *)
(* run with a non-zero status.                                             *)
(***************************************************************************)
C15_Exited == handler /\ pc \in {"done", "exit"}

C15_TerminalRestored ==
    /\ [](C15_Exited => tio = CookedTermios)
    /\ [][handle_interrupt => (exit_status' # 0 /\ pc' = "exit")]_vars

(***************************************************************************)
(* C16.  Loading an image with origin word o followed by the words         *)
(* w1..wn stores w_i, decoded big-endian, at address o+i-1 for every i     *)
(* with o+i-1 <= 65535, for every origin o in 0..65535 (o = 0 included),   *)
(* and changes no other cell.  Stated for the memory handle_args leaves,   *)
(* the files taken in the order in which the loop of handle_args takes     *)
(* them.                                                                   *)
(***************************************************************************)
C16_Word(bytes, i) == 256 * bytes[2 * i + 1] + bytes[2 * i + 2]

C16_Image(m, bytes) ==
    LET o      == C16_Word(bytes, 0)
        n      == Len(bytes) \div 2 - 1
        placed == { a \in o .. (o + n - 1) : a <= MEMORY_MAX - 1 }
        word(a) == IF a \in placed THEN C16_Word(bytes, a - o + 1) ELSE Cell(m, a)
    IN  [a \in {x \in DOMAIN m \cup placed : word(x) # 0} |-> word(a)]

RECURSIVE C16_Images(_, _, _)
C16_Images(m, args, i) ==
    IF i > Len(args) THEN m
    ELSE CHOOSE l \in { C16_Images(x, args, i + 1) :
                           x \in {C16_Image(m, args[i].bytes)} } : TRUE

C16_OriginAndWords ==
    [][ (handle_args /\ pc' = "signal") =>
            memory' = C16_Images(memory, argv, FirstLoaded) ]_vars

(***************************************************************************)
(* C17.  When execution starts, memory is zero-initialised memory          *)
(* overwritten by exactly the image files given as arguments, in argument  *)
(* order, later images over earlier ones; nothing else is loaded.          *)
(***************************************************************************)
\* the memory the image files argv[1], argv[2], ... give (the sequence argv
\* of the model starts at 1 with the program's own name)
C17_Supplied == LoadFrom(ZeroMemory, argv, FirstLoaded + 1).mem

C17_OnlyImagesLoaded == (pc = "run" /\ nfetch = 0) => memory = C17_Supplied

(***************************************************************************)
(* C18.  For every width b in {5, 6, 9, 11} and every value x of the low   *)
(* b bits, sign_extend(x, b) read as a signed 16-bit number is the         *)
(* two's-complement value of the b-bit field x (x if bit b-1 is clear,     *)
(* x - 2^b otherwise), and the result is in 0..65535.                      *)
(***************************************************************************)
C18_Returned == call.ret # -1

C18_SignExtend ==
    C18_Returned =>
        /\ call.ret \in 0 .. (MEMORY_MAX - 1)
        /\ Signed(call.ret, 16) =
             IF call.x < Pow2(call.bit_count - 1) THEN call.x
             ELSE call.x - Pow2(call.bit_count)

\* a negative 11-bit field and a positive 5-bit field have been extended
C18_Witness ==
    /\ C18_Returned
    /\ \/ call.bit_count = 11 /\ call.x = 1024 /\ call.ret = 64512
       \/ call.bit_count = 5 /\ call.x = 15 /\ call.ret = 15

(***************************************************************************)
(* C19.  A TRAP whose vector is outside 0x20..0x25 does nothing in the     *)
(* trap handler: it writes no output, consumes no input, does not halt and *)
(* leaves memory, R0..R6 and the flags unchanged; it changes only PC       *)
(* (incremented by the fetch) and R7 (set to that PC).                     *)
(***************************************************************************)
C19_NoRoutine(i) ==
    Opcode(i) = OP_TRAP /\ TrapVector(i) \notin TRAP_GETC .. TRAP_HALT

C19_UnknownVector ==
    [][ (Instruction /\ C19_NoRoutine(instr')) =>
          /\ out' = out
          /\ kq' = kq /\ buf' = buf
          /\ running' = running /\ pc' = pc
          /\ memory' = memory
          /\ \A i \in (R_R0 .. R_COND) \ {R_R7, R_PC} : reg'[i] = reg[i]
          /\ reg'[R_PC] = U16(reg[R_PC] + 1)
          /\ reg'[R_R7] = reg'[R_PC] ]_vars

\* TRAP 0x1F has been executed as the first instruction, with a character
\* waiting, and the loop goes on
C19_Witness ==
    /\ nfetch = 1 /\ instr = Trap(TRAP_GETC - 1)
    /\ running /\ kq # <<>>
    /\ reg[R_R7] = PC_START + 1 /\ reg[R_PC] = PC_START + 1

(***************************************************************************)
(* C20.  During execution a memory cell other than the keyboard-status     *)
(* and keyboard-data cells changes only as the target cell of an ST, STI   *)
(* or STR instruction, which sets exactly that cell to the value of the    *)
(* source register; every other instruction and every trap routine leaves  *)
(* all such cells unchanged, and ST, STI and STR change no register other  *)
(* than PC.                                                                *)
(***************************************************************************)
C20_Stores(i) == Opcode(i) \in {OP_ST, OP_STI, OP_STR}

\* the cells outside the keyboard registers that the step changes
C20_Changed ==
    { a \in (DOMAIN memory \cup DOMAIN memory') \ {MR_KBSR, MR_KBDR} :
        Cell(memory', a) # Cell(memory, a) }

\* the target of the store i: the second entry of the log of reads is the
\* pointer STI reads
C20_Target(i, log) ==
    IF Opcode(i) = OP_ST THEN U16(reg[R_PC] + 1 + Signed(Bits(i, 0, 9), 9))
    ELSE IF Opcode(i) = OP_STI THEN log[2].val
    ELSE U16(reg[Bits(i, 6, 3)] + Signed(Bits(i, 0, 6), 6))

C20_OnlyStoresWrite ==
    /\ [][ (Instruction /\ C20_Stores(instr')) =>
             /\ C20_Changed \subseteq {C20_Target(instr', rd')}
             /\ Cell(memory', C20_Target(instr', rd')) = reg[Bits(instr', 9, 3)]
             /\ \A i \in (R_R0 .. R_COND) \ {R_PC} : reg'[i] = reg[i] ]_vars
    /\ [][ (Instruction /\ ~C20_Stores(instr')) => C20_Changed = {} ]_vars
    /\ [][ (pc = "run" /\ ~Instruction) => memory' = memory ]_vars

\* a store has changed a cell: ST of a non-zero register into a cell that held 0,
\* STI through a pointer, STR through a base register
C20_Witness ==
    /\ nfetch = 2 /\ C20_Stores(instr)
    /\ reg[Bits(instr, 9, 3)] # 0
    /\ \/ Opcode(instr) = OP_ST /\ Cell(memory, DataAt + 6) = reg[Bits(instr, 9, 3)]
       \/ Opcode(instr) = OP_STI /\ Cell(memory, DataAt + 3) = reg[Bits(instr, 9, 3)]
       \/ Opcode(instr) = OP_STR /\ Cell(memory, reg[Bits(instr, 9, 3)]) = reg[Bits(instr, 9, 3)]

=============================================================================
